---- MODULE Spec2Model ----
(***************************************************************************)
(* Model of the Model Openness Tool helper scripts:                        *)
(*   tools-py/find_missing_models.py  (registry loader, identifier         *)
(*       matcher, remote catalog client, missing-set reporter)             *)
(*   tools-py/model_scraper.py        (single-model scrape, metadata       *)
(*       extraction, component detection, draft serialization)             *)
(* Python strings are sequences of one-character strings.                  *)
(***************************************************************************)
EXTENDS Integers, Sequences, FiniteSets, TLC

VARIABLES
    pc,             \* position of the running tool
    yaml_files,     \* get_mot_models: the *.yml files, in glob order
    file_idx,       \* get_mot_models: index of the next file of the loop
    mot_models,     \* get_mot_models: the mapping, in insertion order
    warnings,       \* get_mot_models: files a warning was printed for
    hf_model,       \* is_model_in_mot: the remote model checked last
    variations,     \* is_model_in_mot: normalize_model_id of its id
    is_present,     \* is_model_in_mot: first component of the result
    matched_file,   \* is_model_in_mot: second component of the result
    min_downloads,  \* finder CLI: --min-downloads
    limit,          \* finder CLI: --limit
    output_file,    \* finder CLI: whether --output is given
    catalog_pages,  \* remote catalog: how many non-empty pages it has
    page,           \* get_huggingface_models: page counter
    models,         \* get_huggingface_models: the accumulated list
    requests,       \* the 'skip' parameter of every listing request sent
    responses,      \* what every listing request came back with
    missing_models, \* main: the remote models not matched by the registry
    categories,     \* generate_report: categorize_missing_models' result
    report,         \* generate_report: the content of the report text
    report_saved,   \* generate_report: whether the report file was written
    exit_code,      \* exit status of the process, -1 while it runs
    arg_model_id,   \* scraper CLI: the model identifier
    info_resp,      \* scrape: what the model-info call came back with
    card_resp,      \* scrape: what the model-card call came back with
    tree_resp,      \* scrape: what the file-tree call came back with
    scraped_data,   \* scrape_huggingface_model's result
    metadata,       \* generate_yaml: _extract_model_metadata's result
    components,     \* generate_yaml: detect_components' result
    probes,         \* _check_repo_exists: the URLs probed and the answers, in order
    yaml_output,    \* generate_yaml: the lines of the draft
    output_written  \* generate_yaml: whether the output file was written

registryVars == <<yaml_files, file_idx, mot_models, warnings>>
matcherVars == <<hf_model, variations, is_present, matched_file>>
cliVars == <<min_downloads, limit, output_file, catalog_pages>>
fetchVars == <<page, models, requests, responses>>
reportVars == <<missing_models, categories, report, report_saved>>
finderVars == <<cliVars, fetchVars, reportVars>>
scrapeVars == <<info_resp, card_resp, tree_resp, scraped_data>>
yamlVars == <<metadata, components, probes, yaml_output, output_written>>
scraperVars == <<arg_model_id, scrapeVars, yamlVars>>
vars == <<pc, registryVars, matcherVars, finderVars, exit_code, scraperVars>>

----------------------------------------------------------------------------
(* Python str methods *)

\* a Python str, as the sequence of its characters (the concatenation with the
\* empty sequence makes the result an explicit tuple)
Chars(s) == [i \in 1..Len(s) |-> SubSeq(s, i, i)] \o <<>>

UpperCase == <<"A", "B", "C", "D", "E", "F", "G", "H", "I", "J", "K", "L", "M",
               "N", "O", "P", "Q", "R", "S", "T", "U", "V", "W", "X", "Y", "Z">>
LowerCase == <<"a", "b", "c", "d", "e", "f", "g", "h", "i", "j", "k", "l", "m",
               "n", "o", "p", "q", "r", "s", "t", "u", "v", "w", "x", "y", "z">>

LowerChar(c) ==
    IF \E i \in DOMAIN UpperCase : UpperCase[i] = c
    THEN LowerCase[CHOOSE i \in DOMAIN UpperCase : UpperCase[i] = c]
    ELSE c

\* str.lower()
lower(s) == [i \in 1..Len(s) |-> LowerChar(s[i])] \o <<>>

\* whether old occurs in s at position i
OccursAt(s, old, i) ==
    /\ i >= 1
    /\ i + Len(old) - 1 <= Len(s)
    /\ \A k \in 1..Len(old) : s[i + k - 1] = old[k]

\* sub in s
contains(s, sub) == \E i \in 1..(Len(s) + 1) : OccursAt(s, sub, i)

\* str.replace(old, new) for a non-empty old: the occurrences are replaced
\* from the left, without overlap
RECURSIVE replace(_, _, _)
replace(s, old, new) ==
    IF Len(s) < Len(old) THEN s
    ELSE IF OccursAt(s, old, 1)
         THEN new \o replace(SubSeq(s, Len(old) + 1, Len(s)), old, new)
         ELSE <<s[1]>> \o replace(Tail(s), old, new)

\* str.split(sep)[-1] for a one-character sep: what follows the last sep
split_last(s, sep) ==
    LET at == {i \in 1..Len(s) : s[i] = sep}
    IN  IF at = {} THEN s
        ELSE SubSeq(s, (CHOOSE i \in at : \A j \in at : j <= i) + 1, Len(s))

HYPHEN == <<"-">>
UNDERSCORE == <<"_">>
SLASH == <<"/">>
SPACE == <<" ">>

\* the elements of a list
Range(seq) == {seq[i] : i \in 1..Len(seq)}

\* seq[:n]
Take(seq, n) == SubSeq(seq, 1, IF n < Len(seq) THEN n ELSE Len(seq))

UpperChar(c) ==
    IF \E i \in DOMAIN LowerCase : LowerCase[i] = c
    THEN UpperCase[CHOOSE i \in DOMAIN LowerCase : LowerCase[i] = c]
    ELSE c

\* str.upper()
upper(s) == [i \in 1..Len(s) |-> UpperChar(s[i])] \o <<>>

IsLetter(c) == c \in Range(UpperCase) \cup Range(LowerCase)

IsDigit(c) == c \in {"0", "1", "2", "3", "4", "5", "6", "7", "8", "9"}

\* str.title(): a letter is upper-cased after a non-letter and at the start,
\* lower-cased after a letter
title(s) ==
    [i \in 1..Len(s) |->
        IF i > 1 /\ IsLetter(s[i - 1]) THEN LowerChar(s[i]) ELSE UpperChar(s[i])] \o <<>>

\* str.endswith(suffix)
endswith(s, suffix) == OccursAt(s, suffix, Len(s) - Len(suffix) + 1)

\* str.split(sep)[0] for a one-character sep: what precedes the first sep
split_first(s, sep) ==
    LET at == {i \in 1..Len(s) : s[i] = sep}
    IN  IF at = {} THEN s
        ELSE SubSeq(s, 1, (CHOOSE i \in at : \A j \in at : i <= j) - 1)

\* str.split(sep, 1)[1] for a one-character sep that occurs in s
split_rest(s, sep) ==
    LET at == {i \in 1..Len(s) : s[i] = sep}
    IN  SubSeq(s, (CHOOSE i \in at : \A j \in at : i <= j) + 1, Len(s))

\* str.rstrip(c) for one character c
RECURSIVE rstrip(_, _)
rstrip(s, c) ==
    IF s # <<>> /\ s[Len(s)] = c THEN rstrip(SubSeq(s, 1, Len(s) - 1), c) ELSE s

\* sep.join(strs)
RECURSIVE join(_, _)
join(strs, sep) ==
    IF strs = <<>> THEN <<>>
    ELSE IF Len(strs) = 1 THEN strs[1]
    ELSE strs[1] \o sep \o join(Tail(strs), sep)

\* str(n) for an integer
RECURSIVE IntToStr(_)
IntToStr(n) ==
    IF n < 0 THEN <<"-">> \o IntToStr(-n)
    ELSE IF n < 10 THEN <<<<"0", "1", "2", "3", "4", "5", "6", "7", "8", "9">>[n + 1]>>
    ELSE IntToStr(n \div 10) \o IntToStr(n % 10)

\* dict.get(key, default) on a record that lists its present keys
Get(d, key, default) == IF key \in d.keys THEN d[key] ELSE default

----------------------------------------------------------------------------
(* String values used as inputs *)

HF_PREFIX == <<"h", "t", "t", "p", "s", ":", "/", "/", "h", "u", "g", "g", "i", "n",
               "g", "f", "a", "c", "e", ".", "c", "o", "/">>

----------------------------------------------------------------------------
(* JSON values of the remote responses, and the Python operations on them *)

JNull == [t |-> "null"]
JStr(s) == [t |-> "str", v |-> s]
JInt(n) == [t |-> "int", v |-> n]
JList(seq) == [t |-> "list", v |-> seq]
\* a map: f is a function from its keys to JSON values
JDict(f) == [t |-> "dict", v |-> f]

\* the outcome of evaluating a Python expression: a value, or an exception
Ok(v) == [raised |-> FALSE, val |-> v]
Raised == [raised |-> TRUE, val |-> <<>>]

\* d.get(key, default) on a parsed value: AttributeError unless d is a map
JGet(d, key, default) ==
    IF d.t # "dict" THEN Raised
    ELSE IF key \in DOMAIN d.v THEN Ok(d.v[key]) ELSE Ok(default)

\* the elements a for loop over a parsed value visits: the items of a list,
\* the keys of a map, the characters of a string; TypeError otherwise
JIter(j) ==
    CASE j.t = "list" -> Ok(j.v)
      [] j.t = "dict" ->
            Ok(LET ks == DOMAIN j.v
                   RECURSIVE Enum(_)
                   Enum(S) == IF S = {} THEN <<>>
                              ELSE LET k == CHOOSE k \in S : TRUE
                                   IN  <<JStr(Chars(k))>> \o Enum(S \ {k})
               IN  Enum(ks))
      [] j.t = "str" -> Ok([i \in 1..Len(j.v) |-> JStr(<<j.v[i]>>)])
      [] OTHER -> Raised

\* bool(value)
Truthy(j) ==
    CASE j.t = "null" -> FALSE
      [] j.t = "int" -> j.v # 0
      [] j.t = "dict" -> DOMAIN j.v # {}
      [] OTHER -> j.v # <<>>

\* whether a parsed value can be a dict key or be looked up in a dict
Hashable(j) == j.t \notin {"list", "dict"}

\* key in container: a key of a map, an item of a list, a substring of a
\* string; TypeError otherwise
JIn(key, j) ==
    CASE j.t = "dict" -> Ok(key \in DOMAIN j.v)
      [] j.t = "list" -> Ok(JStr(Chars(key)) \in Range(j.v))
      [] j.t = "str" -> Ok(contains(j.v, Chars(key)))
      [] OTHER -> Raised

\* container[key] for a string key: KeyError or TypeError unless the
\* container is a map with that key
JItem(j, key) ==
    IF j.t = "dict" /\ key \in DOMAIN j.v THEN Ok(j.v[key]) ELSE Raised

\* repr(value), and str(value) of a value that is no string
RECURSIVE JRepr(_)
JRepr(j) ==
    CASE j.t = "null" -> <<"N", "o", "n", "e">>
      [] j.t = "int" -> IntToStr(j.v)
      [] j.t = "str" -> <<"'">> \o j.v \o <<"'">>
      [] j.t = "list" ->
            <<"[">> \o join([i \in 1..Len(j.v) |-> JRepr(j.v[i])], <<",", " ">>) \o <<"]">>
      [] OTHER ->
            LET RECURSIVE Items(_)
                Items(S) ==
                    IF S = {} THEN <<>>
                    ELSE LET k == CHOOSE k \in S : TRUE
                         IN  <<<<"'">> \o Chars(k) \o <<"'", ":", " ">> \o JRepr(j.v[k])>>
                             \o Items(S \ {k})
            IN  <<"{">> \o join(Items(DOMAIN j.v), <<",", " ">>) \o <<"}">>

\* str(value)
JToStr(j) == IF j.t = "str" THEN j.v ELSE JRepr(j)

----------------------------------------------------------------------------
(* Single-model scrape: ModelScraper.scrape_huggingface_model *)


FILE_KEY == "path"

\* a file-tree entry as the catalog lists it
TreeFile(path) == JDict([path |-> JStr(path), type |-> JStr(<<"f">>)])

ModelIdPool ==
    { Chars("meta-llama/Llama-3-8B"), Chars("mistralai/Mistral-7B-v0.1"), Chars("gpt2") }

\* the model-info blobs: complete, empty, and with null, wrongly typed or
\* unusual values of cardData, tags and lastModified
InfoPool ==
    { JDict([cardData |-> JDict([license |-> JStr(Chars("apache-2.0"))]),
             tags |-> JList(<<JStr(Chars("transformers")), JStr(Chars("text-generation"))>>),
             lastModified |-> JStr(Chars("2024-01-02T03:04:05.000Z"))]),
      JDict([id |-> JStr(Chars("gpt2"))]),
      JDict([cardData |-> JDict([license |-> JStr(Chars("other"))]),
             tags |-> JList(<<JStr(Chars("stable-diffusion"))>>)]),
      JDict([cardData |-> JDict([license |-> JList(<<JStr(Chars("mit")), JStr(Chars("apache-2.0"))>>)])]),
      JDict([cardData |-> JNull]),
      JDict([tags |-> JNull]),
      JDict([tags |-> JList(<<JList(<<>>)>>)]),
      JDict([lastModified |-> JInt(1700000000)]),
      JList(<<>>) }

CardPool ==
    { Chars("A small model."),
      Chars("Transformer decoder, see the paper; trained on a dataset."),
      Chars("Code: https://github.com/mistralai/mistral-src) and https://github.com/x/Mistral-7B-v0.1 docs") }

\* file-tree bodies: lists of entries with a 'path', and bodies that are
\* JSON but not such a list
TreePool ==
    { JList(<<>>),
      JList(<<TreeFile(Chars("model.safetensors")), TreeFile(Chars("config.json"))>>),
      JList(<<TreeFile(Chars("README.md")), TreeFile(Chars("modeling_x.py")), TreeFile(Chars("LICENSE"))>>),
      JList(<<TreeFile(Chars("config.json")), JDict([type |-> JStr(<<"d">>)])>>),
      JDict([error |-> JStr(<<"x">>)]) }

\* a call that was not made
NotCalled == [status |-> "none"]

\* line 94-99: a RequestException (network error or error status), or the body
InfoResponses == { [status |-> "error"] } \cup [status : {"200"}, json : InfoPool]

\* line 105-109: a RequestException, a status other than 200, or the text
CardResponses ==
    { [status |-> "error"], [status |-> "404"] } \cup [status : {"200"}, text : CardPool]

\* line 115-119: a RequestException, a status other than 200, or the body
TreeResponses ==
    { [status |-> "error"], [status |-> "404"] } \cup [status : {"200"}, json : TreePool]

\* line 117: f['path'] of one entry; KeyError or TypeError unless it is a
\* map with that key
PathOf(f) ==
    IF f.t = "dict" /\ FILE_KEY \in DOMAIN f.v THEN Ok(f.v[FILE_KEY].v) ELSE Raised

\* line 117: [f['path'] for f in files_response.json()]
PathsOf(json) ==
    LET it == JIter(json)
    IN  IF it.raised THEN Raised
        ELSE IF \E i \in 1..Len(it.val) : PathOf(it.val[i]).raised THEN Raised
        ELSE Ok([i \in 1..Len(it.val) |-> PathOf(it.val[i]).val])

\* the empty dict of line 99
EmptyData ==
    [keys |-> {}, model_id |-> <<>>, model_info |-> JNull, model_card |-> <<>>,
     repo_files |-> <<>>, confidence |-> {}]

\* ModelScraper.scrape_huggingface_model, given what the three calls return
scrape_huggingface_model(id, info, card, tree) ==
    IF info.status = "error" THEN Ok(EmptyData)
    ELSE LET model_card_content == IF card.status = "200" THEN card.text ELSE <<>>
             repo_files == IF tree.status = "200" THEN PathsOf(tree.json) ELSE Ok(<<>>)
         IN  IF repo_files.raised THEN Raised
             ELSE Ok([keys |-> {"model_id", "model_info", "model_card", "repo_files",
                                "confidence"},
                      model_id |-> id,
                      model_info |-> info.json,
                      model_card |-> model_card_content,
                      repo_files |-> repo_files.val,
                      confidence |-> {}])

\* main, line 523: the scrape; an exception it lets through ends the process
Scrape ==
    /\ pc = "scrape"
    /\ \E info \in InfoResponses :
         \E card \in (IF info.status = "error" THEN {NotCalled} ELSE CardResponses) :
           \E tree \in (IF info.status = "error" THEN {NotCalled} ELSE TreeResponses) :
              LET r == scrape_huggingface_model(arg_model_id, info, card, tree)
              IN  /\ info_resp' = info
                  /\ card_resp' = card
                  /\ tree_resp' = tree
                  /\ IF r.raised
                     THEN /\ pc' = "scrape_raised"
                          /\ exit_code' = 1
                          /\ UNCHANGED scraped_data
                     ELSE /\ pc' = "scraped"
                          /\ scraped_data' = r.val
                          /\ UNCHANGED exit_code
    /\ UNCHANGED <<registryVars, matcherVars, finderVars, arg_model_id, yamlVars>>

\* main, lines 525-527: an empty result ends the run with status 1
ExitFailed ==
    /\ pc = "scraped"
    /\ scraped_data.keys = {}
    /\ pc' = "done"
    /\ exit_code' = 1
    /\ UNCHANGED <<registryVars, matcherVars, finderVars, scraperVars>>

\* nothing extracted yet
NoMetadata == [keys |-> {}]

----------------------------------------------------------------------------
(* Component detection: ModelScraper._detect_license and detect_components *)


UNLICENSED == JStr(Chars("unlicensed"))

\* ModelScraper._detect_license: the license value, or an exception
detect_license(data) ==
    LET model_info == data.model_info
        has_card == JIn("cardData", model_info)
        card == JItem(model_info, "cardData")
        has_license == JIn("license", card.val)
        license_name == JItem(card.val, "license")
        license_file ==
            \E f \in Range(data.repo_files) :
                upper(f) = <<"L", "I", "C", "E", "N", "S", "E">> \/ upper(f) = <<"L", "I", "C", "E", "N", "S", "E", ".", "m", "d">>
    IN  IF has_card.raised THEN Raised
        ELSE IF has_card.val /\ card.raised THEN Raised
        ELSE IF has_card.val /\ has_license.raised THEN Raised
        ELSE IF has_card.val /\ has_license.val /\ license_name.raised THEN Raised
        ELSE IF /\ has_card.val
                /\ has_license.val
                /\ Truthy(license_name.val)
                /\ (license_name.val.t = "str" => license_name.val.v # <<"o", "t", "h", "e", "r">>)
             THEN Ok(license_name.val)
        ELSE IF license_file THEN Ok(UNLICENSED)
        ELSE Ok(UNLICENSED)

\* line 147
PARAMETER_SUFFIXES ==
    { <<".", "b", "i", "n">>,
      <<".", "s", "a", "f", "e", "t", "e", "n", "s", "o", "r", "s">>,
      <<".", "p", "t">>,
      <<".", "p", "t", "h">>,
      <<".", "c", "k", "p", "t">> }
\* line 157
CONFIG_FILES ==
    { <<"c", "o", "n", "f", "i", "g", ".", "j", "s", "o", "n">>,
      <<"m", "o", "d", "e", "l", "_", "c", "o", "n", "f", "i", "g", ".", "j", "s", "o", "n">>,
      <<"c", "o", "n", "f", "i", "g", "u", "r", "a", "t", "i", "o", "n", ".", "j", "s", "o", "n">> }
\* lines 197, 207, 217, 227
REPORT_KEYWORDS ==
    { <<"t", "e", "c", "h", "n", "i", "c", "a", "l", " ", "r", "e", "p", "o", "r", "t">>,
      <<"t", "e", "c", "h", " ", "r", "e", "p", "o", "r", "t">>,
      <<"d", "o", "c", "u", "m", "e", "n", "t", "a", "t", "i", "o", "n">> }
PAPER_KEYWORDS ==
    { <<"p", "a", "p", "e", "r">>,
      <<"a", "r", "x", "i", "v">>,
      <<"p", "u", "b", "l", "i", "c", "a", "t", "i", "o", "n">> }
EVALUATION_KEYWORDS ==
    { <<"e", "v", "a", "l", "u", "a", "t", "i", "o", "n">>,
      <<"b", "e", "n", "c", "h", "m", "a", "r", "k">>,
      <<"p", "e", "r", "f", "o", "r", "m", "a", "n", "c", "e">>,
      <<"r", "e", "s", "u", "l", "t", "s">> }
DATASET_KEYWORDS ==
    { <<"t", "r", "a", "i", "n", "i", "n", "g", " ", "d", "a", "t", "a">>,
      <<"t", "r", "a", "i", "n", "e", "d", " ", "o", "n">>,
      <<"d", "a", "t", "a", "s", "e", "t">> }

\* one entry of the components list; confidence in hundredths
Component(name, description, license, confidence, location) ==
    [name |-> name, description |-> description, license |-> license,
     confidence |-> confidence, location |-> location]

\* lines 147, 157, 167, 177, 187: the detectors on the file list
HasParameters(repo_files) ==
    \E f \in Range(repo_files) : \E suffix \in PARAMETER_SUFFIXES : endswith(f, suffix)
HasMetadata(repo_files) == \E f \in CONFIG_FILES : f \in Range(repo_files)
\* a variant that looks at the file extensions only
HasArchitecture_PyOnly(repo_files) ==
    \E f \in Range(repo_files) : endswith(f, <<".", "p", "y">>)
HasArchitecture(repo_files) ==
    \/ \E f \in Range(repo_files) : endswith(f, <<".", "p", "y">>)
    \/ contains(join(repo_files, SPACE), <<"m", "o", "d", "e", "l", "i", "n", "g">>)
HasInference(repo_files) ==
    \E f \in Range(repo_files) :
        contains(lower(f), <<"i", "n", "f", "e", "r", "e", "n", "c", "e">>) \/ contains(lower(f), <<"g", "e", "n", "e", "r", "a", "t", "e">>)
\* a variant that looks at the file list only
HasModelCard_ReadmeOnly(repo_files, model_card) ==
    <<"R", "E", "A", "D", "M", "E", ".", "m", "d">> \in Range(repo_files)
HasModelCard(repo_files, model_card) ==
    <<"R", "E", "A", "D", "M", "E", ".", "m", "d">> \in Range(repo_files) \/ model_card # <<>>

\* lines 197, 207, 217, 227: the detectors on the lower-cased model card
HasKeyword(model_card, keywords) == \E keyword \in keywords : contains(model_card, keyword)

\* ModelScraper.detect_components: the list, or the exception of _detect_license
detect_components(data) ==
    LET repo_files == data.repo_files
        model_card == lower(data.model_card)
        lic == detect_license(data)
        on_files == <<HasParameters(repo_files), HasMetadata(repo_files),
                      HasArchitecture(repo_files), HasInference(repo_files),
                      HasModelCard(repo_files, model_card)>>
    IN  IF lic.raised /\ TRUE \in Range(on_files) THEN Raised
        ELSE Ok(
          (IF on_files[1]
           THEN <<Component("Model parameters (Final)",
                            "Trained model parameters, weights and biases",
                            lic.val, 95, "HuggingFace repository")>>
           ELSE <<>>)
          \o (IF on_files[2]
           THEN <<Component("Model metadata",
                            "Any model metadata including training configuration and optimizer states",
                            lic.val, 90, "HuggingFace repository")>>
           ELSE <<>>)
          \o (IF on_files[3]
           THEN <<Component("Model architecture",
                            "Well commented code for the model's architecture",
                            lic.val, 85, "HuggingFace repository")>>
           ELSE <<>>)
          \o (IF on_files[4]
           THEN <<Component("Inference code",
                            "Code used for running the model to make predictions",
                            lic.val, 80, "HuggingFace repository")>>
           ELSE <<>>)
          \o (IF on_files[5]
           THEN <<Component("Model card",
                            "Model details including performance metrics, intended use, and limitations",
                            lic.val, 95, "HuggingFace repository")>>
           ELSE <<>>)
          \o (IF HasKeyword(model_card, REPORT_KEYWORDS)
           THEN <<Component("Technical report",
                            "Technical report detailing capabilities and usage instructions for the model",
                            UNLICENSED, 60, "Referenced in model card")>>
           ELSE <<>>)
          \o (IF HasKeyword(model_card, PAPER_KEYWORDS)
           THEN <<Component("Research paper",
                            "Research paper detailing the development and capabilities of the model",
                            UNLICENSED, 70, "Referenced in model card")>>
           ELSE <<>>)
          \o (IF HasKeyword(model_card, EVALUATION_KEYWORDS)
           THEN <<Component("Evaluation results",
                            "The results from evaluating the model",
                            UNLICENSED, 75, "Model card")>>
           ELSE <<>>)
          \o (IF HasKeyword(model_card, DATASET_KEYWORDS)
           THEN <<Component("Training dataset",
                            "The dataset used to train the model",
                            UNLICENSED, 50, "Referenced in model card")>>
           ELSE <<>>) )

----------------------------------------------------------------------------
(* Metadata extraction: ModelScraper._detect_repository, _check_repo_exists
   and _extract_model_metadata *)

GITHUB_PREFIX == <<"h", "t", "t", "p", "s", ":", "/", "/", "g", "i", "t",
                   "h", "u", "b", ".", "c", "o", "m", "/">>

\* line 276: the characters [^/\s"<>] leaves out
URL_STOP == {"/", " ", "\t", "\n", "\r", "\f", "\"", "<", ">"}

\* the end of the longest run of [^/\s"<>] that starts at i; i - 1 if none
RunEnd(str, i) ==
    LET stops == {k \in i..Len(str) : str[k] \in URL_STOP}
    IN  IF stops = {} THEN Len(str)
        ELSE (CHOOSE k \in stops : \A j \in stops : k <= j) - 1

\* line 276: where a match of github_pattern that starts at i ends; 0 if
\* there is none
MatchEnd(str, i) ==
    LET a == i + Len(GITHUB_PREFIX)
        e1 == RunEnd(str, a)
        e2 == RunEnd(str, e1 + 2)
    IN  IF ~OccursAt(str, GITHUB_PREFIX, i) THEN 0
        ELSE IF e1 < a \/ e1 + 1 > Len(str) THEN 0
        ELSE IF str[e1 + 1] # "/" \/ e2 < e1 + 2 THEN 0
        ELSE e2

\* line 277: re.findall(github_pattern, text), scanning from position i
RECURSIVE findall(_, _)
findall(str, i) ==
    IF i > Len(str) THEN <<>>
    ELSE IF MatchEnd(str, i) > 0
         THEN <<SubSeq(str, i, MatchEnd(str, i))>> \o findall(str, MatchEnd(str, i) + 1)
         ELSE findall(str, i + 1)

\* lines 297-303: the URLs of the third method, for an org/name identifier
BaseNameRepos(model_id) ==
    LET org == split_first(model_id, "/")
        name == split_rest(model_id, "/")
        base_names == <<split_first(name, "-"), lower(name), name>>
    IN  [i \in 1..3 |-> GITHUB_PREFIX \o org \o SLASH \o base_names[i]]

\* every URL _check_repo_exists may be asked about
RepoCandidates(model_id) ==
    { GITHUB_PREFIX \o model_id }
    \cup (IF contains(model_id, SLASH) THEN Range(BaseNameRepos(model_id)) ELSE {})

\* ModelScraper._check_repo_exists: one probe and its answer; exists is the set
\* of URLs that answer 200 (a failing probe answers False, line 323-324)
check_repo_exists(repo_url, exists) == [url |-> repo_url, exists |-> repo_url \in exists]

\* a variant that only probes the URL built from the full identifier
detect_repository_InferredOnly(data, exists) ==
    [url |-> IF GITHUB_PREFIX \o data.model_id \in exists
             THEN GITHUB_PREFIX \o data.model_id ELSE <<>>,
     confidence |-> IF GITHUB_PREFIX \o data.model_id \in exists THEN 65 ELSE 0,
     probes |-> <<check_repo_exists(GITHUB_PREFIX \o data.model_id, exists)>>]

\* ModelScraper._detect_repository; exists is the set of URLs for which
\* _check_repo_exists answers True (a failing probe answers False);
\* confidence in hundredths
detect_repository(data, exists) ==
    LET model_id == data.model_id
        github_urls == findall(data.model_card, 1)
        model_name == lower(split_last(model_id, "/"))
        relevant == {i \in 1..Len(github_urls) :
                        contains(lower(rstrip(github_urls[i], ")")), model_name)}
        inferred_repo == GITHUB_PREFIX \o model_id
        repos == BaseNameRepos(model_id)
        found == {i \in 1..3 : repos[i] \in exists}
        first == CHOOSE i \in found : \A j \in found : i <= j
    IN  IF github_urls # <<>>
        THEN IF relevant # {}
             THEN [url |-> rstrip(github_urls[CHOOSE i \in relevant :
                                                  \A j \in relevant : i <= j], ")"),
                   confidence |-> 90, probes |-> <<>>]
             ELSE [url |-> rstrip(github_urls[1], ")"), confidence |-> 70,
                   probes |-> <<>>]
        ELSE IF inferred_repo \in exists
        THEN [url |-> inferred_repo, confidence |-> 65,
              probes |-> <<check_repo_exists(inferred_repo, exists)>>]
        ELSE IF contains(model_id, SLASH) /\ found # {}
        THEN [url |-> repos[first], confidence |-> 60,
              probes |-> <<check_repo_exists(inferred_repo, exists)>>
                         \o [i \in 1..first |-> check_repo_exists(repos[i], exists)]]
        ELSE [url |-> <<>>, confidence |-> 0,
              probes |-> <<check_repo_exists(inferred_repo, exists)>>
                         \o (IF contains(model_id, SLASH)
                             THEN [i \in 1..3 |-> check_repo_exists(repos[i], exists)]
                             ELSE <<>>)]

\* lines 348-356
type_mapping ==
    { <<<<"t", "e", "x", "t", "-", "g", "e", "n", "e", "r", "a", "t", "i", "o", "n">>, <<"l", "a", "n", "g", "u", "a", "g", "e">>>>,
      <<<<"t", "e", "x", "t", "2", "t", "e", "x", "t", "-", "g", "e", "n", "e", "r", "a", "t", "i", "o", "n">>, <<"l", "a", "n", "g", "u", "a", "g", "e">>>>,
      <<<<"i", "m", "a", "g", "e", "-", "t", "o", "-", "t", "e", "x", "t">>, <<"m", "u", "l", "t", "i", "m", "o", "d", "a", "l">>>>,
      <<<<"t", "e", "x", "t", "-", "t", "o", "-", "i", "m", "a", "g", "e">>, <<"i", "m", "a", "g", "e">>>>,
      <<<<"i", "m", "a", "g", "e", "-", "c", "l", "a", "s", "s", "i", "f", "i", "c", "a", "t", "i", "o", "n">>, <<"v", "i", "s", "i", "o", "n">>>>,
      <<<<"o", "b", "j", "e", "c", "t", "-", "d", "e", "t", "e", "c", "t", "i", "o", "n">>, <<"v", "i", "s", "i", "o", "n">>>>,
      <<<<"a", "u", "t", "o", "m", "a", "t", "i", "c", "-", "s", "p", "e", "e", "c", "h", "-", "r", "e", "c", "o", "g", "n", "i", "t", "i", "o", "n">>, <<"a", "u", "d", "i", "o">>>> }

\* tag in type_mapping, for a hashable tag
InTypeMapping(tag) == tag.t = "str" /\ \E m \in type_mapping : m[1] = tag.v

\* lines 347, 358-361: the type of the first tag that is in type_mapping;
\* TypeError at a tag that cannot be hashed
TypeOfTags(tags) ==
    LET stops == {i \in 1..Len(tags) : ~Hashable(tags[i]) \/ InTypeMapping(tags[i])}
        first == CHOOSE i \in stops : \A j \in stops : i <= j
    IN  IF stops = {} THEN Ok(<<>>)
        ELSE IF ~Hashable(tags[first]) THEN Raised
        ELSE Ok((CHOOSE m \in type_mapping : m[1] = tags[first].v)[2])

\* lines 364-374
ArchitectureOf(model_card, tags_str) ==
    IF contains(model_card, Chars("transformer")) \/ contains(tags_str, Chars("transformer"))
    THEN IF contains(model_card, Chars("decoder")) THEN Chars("transformer decoder")
         ELSE IF contains(model_card, Chars("encoder")) THEN Chars("transformer encoder-decoder")
         ELSE Chars("transformer")
    ELSE IF contains(model_card, Chars("diffusion")) \/ contains(tags_str, Chars("diffusion"))
    THEN Chars("diffusion")
    ELSE <<>>

\* the end of the run of digits that starts at i; i - 1 if none
DigitsEnd(str, i) ==
    LET stops == {k \in i..Len(str) : ~IsDigit(str[k])}
    IN  IF stops = {} THEN Len(str)
        ELSE (CHOOSE k \in stops : \A j \in stops : k <= j) - 1

\* lines 377-378: the first match of (\d+\.?\d*[BMK]?), '1.0' if there is none
VersionOf(model_name) ==
    LET digits == {i \in 1..Len(model_name) : IsDigit(model_name[i])}
        start == CHOOSE i \in digits : \A j \in digits : i <= j
        e1 == DigitsEnd(model_name, start)
        e2 == IF e1 < Len(model_name) /\ model_name[e1 + 1] = "." THEN e1 + 1 ELSE e1
        e3 == DigitsEnd(model_name, e2 + 1)
        e4 == IF e3 < Len(model_name) /\ model_name[e3 + 1] \in {"B", "M", "K"}
              THEN e3 + 1 ELSE e3
    IN  IF digits = {} THEN Chars("1.0") ELSE SubSeq(model_name, start, e4)

\* lines 381-385: the date part of lastModified, today's date without one;
\* AttributeError when the value is true and no string
DateOf(last_modified) ==
    IF ~Truthy(last_modified) THEN Ok(Chars("2026-01-01"))
    ELSE IF last_modified.t = "str" THEN Ok(split_first(last_modified.v, "T"))
    ELSE Raised

\* ModelScraper._extract_model_metadata: the metadata and the URLs probed,
\* or an exception
extract_model_metadata(data, exists) ==
    LET model_info == data.model_info
        model_id == data.model_id
        producer == title(replace(replace(
                        IF contains(model_id, SLASH) THEN split_first(model_id, "/")
                        ELSE Chars("Unknown"), HYPHEN, SPACE), UNDERSCORE, SPACE))
        model_name == IF contains(model_id, SLASH) THEN split_last(model_id, "/")
                      ELSE model_id
        tags == JGet(model_info, "tags", JList(<<>>))
        tag_list == JIter(tags.val)
        model_type == TypeOfTags(tag_list.val)
        architecture == ArchitectureOf(lower(data.model_card), lower(JToStr(tags.val)))
        version == VersionOf(model_name)
        last_modified == JGet(model_info, "lastModified", JStr(<<>>))
        date == DateOf(last_modified.val)
        repo == detect_repository(data, exists)
    IN  IF tags.raised THEN Raised
        ELSE IF tag_list.raised THEN Raised
        ELSE IF model_type.raised THEN Raised
        ELSE IF date.raised THEN Raised
        ELSE Ok([probes |-> repo.probes, metadata |->
                [ keys |-> {"name", "version", "producer", "type", "architecture",
                            "date", "origin", "huggingface"}
                           \cup (IF repo.url # <<>>
                                 THEN {"repository", "repository_confidence"} ELSE {}),
                  name |-> model_name,
                  version |-> version,
                  producer |-> producer,
                  type |-> model_type.val,
                  architecture |-> architecture,
                  date |-> date.val,
                  origin |-> lower(model_name),
                  huggingface |-> HF_PREFIX \o model_id,
                  repository |-> repo.url,
                  repository_confidence |-> repo.confidence ]])

----------------------------------------------------------------------------
(* Draft serializer: ModelScraper._format_yaml_mot_style and generate_yaml *)

\* one line of the draft: its indentation, its key, how the value is written
\* ("none": the key alone, "plain", "single"- or "double"-quoted, "text": a
\* fixed text), and the value
Line(indent, key, style, value) ==
    [indent |-> indent, key |-> key, style |-> style, value |-> value]

\* lines 454-462: the license line of one component
LicenseLine(license) ==
    LET license_val == IF license.t = "list"
                       THEN IF license.v # <<>> THEN license.v[1] ELSE UNLICENSED
                       ELSE license
    IN  IF Truthy(license_val) /\ license_val # UNLICENSED
        THEN Line(6, "license", "single", JToStr(license_val))
        ELSE Line(6, "license", "plain", Chars("unlicensed"))

\* lines 448-462: the block of the components from the i-th on
RECURSIVE ComponentLines(_, _)
ComponentLines(comps, i) ==
    IF i > Len(comps) THEN <<>>
    ELSE << Line(4, "-", "none", <<>>),
            Line(6, "name", "single", <<comps[i].name>>),
            Line(6, "description", "double", <<comps[i].description>>),
            LicenseLine(comps[i].license) >>
         \o ComponentLines(comps, i + 1)

\* ModelScraper._format_yaml_mot_style
format_yaml_mot_style(md, comps) ==
    << Line(0, "framework", "none", <<>>),
       Line(2, "name", "single", <<"Model Openness Framework">>),
       Line(2, "version", "single", <<"1", ".", "0">>),
       Line(2, "date", "single", <<"2024-12-15">>),
       Line(0, "release", "none", <<>>),
       Line(2, "name", "plain", md.name),
       Line(2, "version", "single", md.version),
       Line(2, "date", "single", md.date),
       Line(2, "license", "text", <<"{  }">>),
       Line(2, "type", "single", md.type),
       Line(2, "architecture", "single", md.architecture),
       Line(2, "origin", "plain", md.origin),
       Line(2, "producer", "single", md.producer),
       Line(2, "contact", "text", <<"''">>) >>
    \o (IF "repository" \in md.keys /\ md.repository # <<>>
        THEN <<Line(2, "repository", "single", md.repository)>> ELSE <<>>)
    \o (IF "huggingface" \in md.keys /\ md.huggingface # <<>>
        THEN <<Line(2, "huggingface", "single", md.huggingface)>> ELSE <<>>)
    \o <<Line(2, "components", "none", <<>>)>>
    \o ComponentLines(comps, 1)

\* ModelScraper.generate_yaml up to the write: the metadata, the components
\* and the draft, or an exception; and the URLs probed on the way
generate_yaml(data, exists) ==
    LET md == extract_model_metadata(data, exists)
        comps == detect_components(data)
    IN  IF md.raised THEN [raised |-> TRUE, val |-> <<>>, probes |-> <<>>]
        ELSE IF comps.raised
        THEN [raised |-> TRUE, val |-> <<>>, probes |-> md.val.probes]
        ELSE [raised |-> FALSE,
              val |-> [metadata |-> md.val.metadata, components |-> comps.val,
                       yaml_output |-> format_yaml_mot_style(md.val.metadata,
                                                              comps.val)],
              probes |-> md.val.probes]

\* main, lines 529-553: the draft is generated and written; an exception of
\* generate_yaml ends the process before anything is written
GenerateYaml ==
    /\ pc = "scraped"
    /\ scraped_data.keys # {}
    /\ \E exists \in SUBSET RepoCandidates(arg_model_id) :
          \E r \in {generate_yaml(scraped_data, exists)} :
              /\ probes' = r.probes
              /\ IF r.raised
                 THEN /\ pc' = "generate_raised"
                      /\ exit_code' = 1
                      /\ UNCHANGED <<metadata, components, yaml_output, output_written>>
                 ELSE /\ pc' = "done"
                      /\ exit_code' = 0
                      /\ metadata' = r.val.metadata
                      /\ components' = r.val.components
                      /\ yaml_output' = r.val.yaml_output
                      /\ output_written' = TRUE
    /\ UNCHANGED <<registryVars, matcherVars, finderVars, arg_model_id, scrapeVars>>

----------------------------------------------------------------------------
(* Scraped models the extractor is run on *)

\* the subsequence of seq at the positions in idx
Pick(seq, idx) ==
    LET RECURSIVE From(_)
        From(i) == IF i > Len(seq) THEN <<>>
                   ELSE (IF i \in idx THEN <<seq[i]>> ELSE <<>>) \o From(i + 1)
    IN  From(1)

\* a successful result of scrape_huggingface_model, lines 123-128
Scraped(id, info, card, files) ==
    [keys |-> {"model_id", "model_info", "model_card", "repo_files", "confidence"},
     model_id |-> id, model_info |-> info, model_card |-> card,
     repo_files |-> files, confidence |-> {}]

\* a model-info blob with a license
LicensedInfo == JDict([cardData |-> JDict([license |-> JStr(Chars("apache-2.0"))])])

\* models for the component detectors: some of five files, one per detector
\* of the file list; and no free text, or a plain first sentence followed by
\* some of four sentences, one per detector of the free text
DetectorInputs ==
    { Scraped(Chars("gpt2"), LicensedInfo, card,
              Pick(<< Chars("model.safetensors"), Chars("config.json"),
                      Chars("train.py"), Chars("run_inference.sh"),
                      Chars("README.md") >>, idx)) :
        card \in { <<>> } \cup
                 { Chars("A small model.")
                   \o join(Pick(<< Chars(" See the Documentation."),
                                   Chars(" Read the paper."),
                                   Chars(" Benchmark scores."),
                                   Chars(" Trained on web text.") >>, sentences), <<>>) :
                     sentences \in SUBSET (1..4) },
        idx \in SUBSET (1..5) }

\* models for the repository tiers: free texts with and without links
RepositoryInputs ==
    { Scraped(id, LicensedInfo, card, <<>>) :
        id \in { Chars("gpt2"), Chars("mistralai/Mistral-7B-v0.1"), Chars("org/solo") },
        card \in
          { <<>>,
            Chars("A small model."),
            Chars("Code: https://github.com/org/tools and https://github.com/x/y/z."),
            Chars("See (https://github.com/org/tools) and (https://github.com/x/MISTRAL-7b-v0.1)"),
            Chars("See https://github.com/openai/gpt2-output and https://github.com/org/tools") } }

\* models for the architecture rule: free texts with the architecture
\* keywords, alone and together, and tag lists with and without them
ArchitectureInputs ==
    { Scraped(Chars("gpt2"), JDict([tags |-> tags]), card, <<>>) :
        tags \in { JList(<<>>),
                   JList(<<JStr(Chars("Transformers")), JStr(Chars("text-generation"))>>),
                   JList(<<JStr(Chars("stable-diffusion"))>>) },
        card \in { Chars("A model.")
                   \o join(Pick(<< Chars(" Transformer."), Chars(" Decoder."),
                                   Chars(" Encoder."), Chars(" Diffusion.") >>, words),
                           <<>>) :
                     words \in SUBSET (1..4) }
                 \cup { Chars("A Transformer encoder-decoder model."),
                        Chars("An encoder-decoder model.") } }

\* models for the serializer and for the two-file scenario: the license
\* values the serializer tells apart
SerializerInputs ==
    { Scraped(id, info, card, files) :
        id \in { Chars("gpt2"), Chars("org/solo") },
        info \in
          { LicensedInfo,
            JDict([id |-> JStr(Chars("gpt2"))]),
            JDict([cardData |-> JDict([license |-> JStr(Chars("unlicensed"))])]),
            JDict([cardData |-> JDict([license |-> JStr(Chars("other"))])]),
            JDict([cardData |-> JDict([license |-> JStr(<<>>)])]),
            JDict([cardData |-> JDict([license |-> JList(<<JStr(Chars("mit")),
                                                           JStr(Chars("apache-2.0"))>>)])]),
            JDict([cardData |-> JDict([license |-> JList(<<JStr(<<>>)>>)])]),
            JDict([cardData |-> JNull]) },
        card \in { <<>>, Chars("A small model."),
                   Chars("Code: https://github.com/org/tools") },
        files \in { << Chars("model.safetensors"), Chars("config.json") >>,
                    << Chars("notes.txt"), Chars("model.safetensors"),
                       Chars("config.json"), Chars("modeling_notes.txt") >> } }

ExtractorInputs ==
    DetectorInputs \cup RepositoryInputs \cup ArchitectureInputs \cup SerializerInputs

----------------------------------------------------------------------------
(* Registry loader: MissingModelsFinder.get_mot_models *)

\* number of registry files of a run
MaxFiles == 2

StemPool == {"a", "b", "c"}

\* what reading and parsing one file gives: a record with a 'release' map
\* ("ok"), a document that is empty or has no 'release' key ("norelease"),
\* or an exception: unreadable file, YAML error, wrongly typed value ("raises")
ContentPool ==
    { [kind |-> "ok", name |-> Chars("Llama-2-7B"), origin |-> <<>>, huggingface |-> <<>>],
      [kind |-> "ok", name |-> Chars("Q_x-1"), origin |-> <<>>,
       huggingface |-> HF_PREFIX \o Chars("org/Q-X_1")],
      [kind |-> "ok", name |-> Chars("llama_2_7b"), origin |-> Chars("Q-X_1"),
       huggingface |-> Chars("org/Q-X_1")],
      [kind |-> "norelease", name |-> <<>>, origin |-> <<>>, huggingface |-> <<>>],
      [kind |-> "raises", name |-> <<>>, origin |-> <<>>, huggingface |-> <<>>] }

FilePool == [stem : StemPool, content : ContentPool]

\* yaml_file.name
FileName(f) == f.stem \o ".yml"

\* Identifiers keeping only what follows the last '/' of the catalog URL
Identifiers_TrailingSegment(release) ==
    (IF release.name # <<>>
     THEN { lower(release.name),
            replace(lower(release.name), HYPHEN, UNDERSCORE),
            replace(lower(release.name), UNDERSCORE, HYPHEN) }
     ELSE {})
    \cup (IF release.origin # <<>> THEN { lower(release.origin) } ELSE {})
    \cup (IF release.huggingface # <<>>
          THEN { lower(split_last(release.huggingface, "/")) }
          ELSE {})

\* lines 73-83: the identifier set of one release
Identifiers(release) ==
    (IF release.name # <<>>
     THEN { lower(release.name),
            replace(lower(release.name), HYPHEN, UNDERSCORE),
            replace(lower(release.name), UNDERSCORE, HYPHEN) }
     ELSE {})
    \cup (IF release.origin # <<>> THEN { lower(release.origin) } ELSE {})
    \cup (IF release.huggingface # <<>>
          THEN { lower(replace(release.huggingface, HF_PREFIX, <<>>)) }
          ELSE {})

\* lines 85-91: the entry stored under yaml_file.stem
MotEntry(f) ==
    [ stem |-> f.stem,
      name |-> f.content.name,
      origin |-> f.content.origin,
      huggingface |-> f.content.huggingface,
      identifiers |-> Identifiers(f.content),
      file |-> FileName(f) ]

\* lines 59-95: one iteration of the loop over yaml_files
LoadFile ==
    /\ pc = "load"
    /\ file_idx <= Len(yaml_files)
    /\ LET f == yaml_files[file_idx]
       IN  /\ mot_models' = IF f.content.kind = "ok"
                            THEN Append(mot_models, MotEntry(f))
                            ELSE mot_models
           /\ warnings' = IF f.content.kind = "raises"
                          THEN Append(warnings, FileName(f))
                          ELSE warnings
    /\ file_idx' = file_idx + 1
    /\ UNCHANGED <<scraperVars, pc, yaml_files, matcherVars, finderVars, exit_code>>

\* lines 97-98: the loop is over, the mapping is returned
LoadDone ==
    /\ pc = "load"
    /\ file_idx > Len(yaml_files)
    /\ pc' = "loaded"
    /\ UNCHANGED <<scraperVars, registryVars, matcherVars, finderVars, exit_code>>

\* the file lists of a run: at most MaxFiles files with distinct stems, in
\* any order (glob does not sort)
FileLists ==
    UNION { { fs \in [1..n -> FilePool] :
                \A i, j \in 1..n : i # j => fs[i].stem # fs[j].stem } : n \in 0..MaxFiles }

\* categories before categorize_missing_models ran (lines 222-227)
NoCategories ==
    [high_priority |-> <<>>, medium_priority |-> <<>>, low_priority |-> <<>>,
     by_type |-> <<>>]

\* no report text yet
NoReport ==
    [n_mot |-> 0, n_missing |-> 0, n_high |-> 0, n_medium |-> 0, n_low |-> 0,
     by_type |-> <<>>, high |-> <<>>, medium |-> <<>>, commands |-> <<>>]

----------------------------------------------------------------------------
(* Identifier matcher *)

\* normalize_model_id without the swapped forms of the trailing segment
normalize_model_id_NoTailSwaps(model_id) ==
    { lower(model_id) }
    \cup (IF contains(model_id, SLASH)
          THEN { lower(split_last(model_id, "/")) }
          ELSE {})
    \cup { replace(lower(model_id), HYPHEN, UNDERSCORE),
           replace(lower(model_id), UNDERSCORE, HYPHEN) }

\* MissingModelsFinder.normalize_model_id
normalize_model_id(model_id) ==
    { lower(model_id) }
    \cup (IF contains(model_id, SLASH)
          THEN LET model_name == split_last(model_id, "/")
               IN  { lower(model_name),
                     replace(lower(model_name), HYPHEN, UNDERSCORE),
                     replace(lower(model_name), UNDERSCORE, HYPHEN) }
          ELSE {})
    \cup { replace(lower(model_id), HYPHEN, UNDERSCORE),
           replace(lower(model_id), UNDERSCORE, HYPHEN) }

\* is_model_in_mot that keeps looping and reports the last matching record
is_model_in_mot_LastMatch(model, mot) ==
    LET vs == normalize_model_id(Get(model, "id", <<>>))
        hits == {i \in 1..Len(mot) : vs \cap mot[i].identifiers # {}}
    IN  IF hits = {} THEN <<FALSE, "">>
        ELSE <<TRUE, mot[CHOOSE i \in hits : \A j \in hits : j <= i].file>>

\* is_model_in_mot that asks for every variation to be an identifier
is_model_in_mot_AllVariations(model, mot) ==
    LET vs == normalize_model_id(Get(model, "id", <<>>))
        hits == {i \in 1..Len(mot) : vs \subseteq mot[i].identifiers}
    IN  IF hits = {} THEN <<FALSE, "">>
        ELSE <<TRUE, mot[CHOOSE i \in hits : \A j \in hits : i <= j].file>>

\* MissingModelsFinder.is_model_in_mot: <<is_present, matched_file>>
is_model_in_mot(model, mot) ==
    LET vs == normalize_model_id(Get(model, "id", <<>>))
        hits == {i \in 1..Len(mot) : vs \cap mot[i].identifiers # {}}
    IN  IF hits = {} THEN <<FALSE, "">>
        ELSE <<TRUE, mot[CHOOSE i \in hits : \A j \in hits : i <= j].file>>

\* remote identifiers
IdPool == { Chars("meta-llama/Llama-2-7B"), Chars("meta-llama/Llama-3-8B"), Chars("org/Q-X_1"), Chars("Q_x-1"),
            Chars("org") \o SLASH \o Chars("meta-llama/Llama-2-7B"), Chars("llama_2_7b") }

RemotePool == [keys : {{"id"}}, id : IdPool] \cup {[keys |-> {}, id |-> <<>>]}

NoModel == [keys |-> {}, id |-> <<>>]

\* one call of is_model_in_mot on the loaded mapping
Match ==
    /\ pc = "loaded"
    /\ \E m \in RemotePool :
          /\ hf_model' = m
          /\ variations' = normalize_model_id(Get(m, "id", <<>>))
          /\ is_present' = is_model_in_mot(m, mot_models)[1]
          /\ matched_file' = is_model_in_mot(m, mot_models)[2]
    /\ pc' = "matched"
    /\ UNCHANGED <<scraperVars, registryVars, finderVars, exit_code>>

----------------------------------------------------------------------------
(* Remote catalog client: MissingModelsFinder.get_huggingface_models *)

\* line 127-128: the page size of a listing request
PAGE_SIZE == 100

\* largest --limit of a run
MaxLimit == 3
\* largest number of non-empty pages of the remote catalog
MaxPages == 2

MinDownloadsPool == {0, 10000}

AllKeys == {"id", "downloads", "tags"}

Entry(id, downloads, tags) ==
    [keys |-> AllKeys, id |-> id, downloads |-> downloads, tags |-> tags]

E_500000 == Entry(Chars("meta-llama/Llama-2-7B"), 500000, <<"pytorch", "text-generation", "image-to-text">>)
E_50000 == Entry(Chars("meta-llama/Llama-3-8B"), 50000, <<"image-to-text", "text-generation">>)
E_5000 == Entry(Chars("org/Q-X_1"), 5000, <<"pytorch">>)
E_100000 == Entry(Chars("org") \o SLASH \o Chars("meta-llama"), 100000, <<"text-generation">>)
E_10000 == Entry(Chars("Q_x-1"), 10000, <<>>)
E_99999 == Entry(Chars("org") \o SLASH \o Chars("Q_x-1"), 99999, <<"object-detection", "pytorch">>)
E_9999 == Entry(Chars("meta-llama"), 9999, <<"text-generation">>)
\* an entry without a download count and without tags
E_NoDownloads == [keys |-> {"id"}, id |-> Chars("org"), downloads |-> 0, tags |-> <<>>]

\* the non-empty pages the remote catalog may answer with
BatchPool ==
    { <<E_500000, E_50000, E_5000>>,
      <<E_100000, E_10000>>,
      <<E_9999, E_99999, E_500000>>,
      <<E_NoDownloads>>,
      <<E_5000>> }

\* what request number p + 1 can come back with: a network error, an HTTP
\* error status or a body that is no JSON ("error", a RequestException), a
\* JSON body that is no list of maps ("malformed"), or the page
Responses(p) ==
    { [status |-> "error", batch |-> <<>>], [status |-> "malformed", batch |-> <<>>] }
    \cup (IF p < catalog_pages
          THEN [status : {"ok"}, batch : BatchPool]
          ELSE { [status |-> "ok", batch |-> <<>>] })

\* AppendBatch without the break at line 148-149
RECURSIVE AppendBatch_NoBreak(_, _, _, _, _)
AppendBatch_NoBreak(acc, batch, i, min_dl, lim) ==
    IF i > Len(batch) THEN acc
    ELSE AppendBatch_NoBreak(
             IF Get(batch[i], "downloads", 0) >= min_dl THEN Append(acc, batch[i]) ELSE acc,
             batch, i + 1, min_dl, lim)

\* lines 143-149: the loop over one page, from its entry i on
RECURSIVE AppendBatch(_, _, _, _, _)
AppendBatch(acc, batch, i, min_dl, lim) ==
    IF i > Len(batch) THEN acc
    ELSE LET model == batch[i]
             downloads == Get(model, "downloads", 0)
             acc2 == IF downloads >= min_dl THEN Append(acc, model) ELSE acc
         IN  IF Len(acc2) >= lim THEN acc2
             ELSE AppendBatch(acc2, batch, i + 1, min_dl, lim)

\* FetchPage that asks again after a failed request instead of breaking
FetchPage_RetryOnError ==
    /\ pc = "fetch"
    /\ Len(models) < limit
    /\ Len(requests) <= catalog_pages + 1
    /\ \E r \in Responses(page) :
          /\ requests' = Append(requests, page * PAGE_SIZE)
          /\ responses' = Append(responses, r)
          /\ CASE r.status = "error" ->
                    UNCHANGED <<pc, models, page, exit_code>>
               [] r.status = "malformed" ->
                    /\ pc' = "crashed"
                    /\ exit_code' = 1
                    /\ UNCHANGED <<models, page>>
               [] r.status = "ok" /\ r.batch = <<>> ->
                    /\ pc' = "fetched"
                    /\ UNCHANGED <<models, page, exit_code>>
               [] OTHER ->
                    /\ models' = AppendBatch(models, r.batch, 1, min_downloads, limit)
                    /\ page' = page + 1
                    /\ UNCHANGED <<pc, exit_code>>
    /\ UNCHANGED <<scraperVars, registryVars, matcherVars, cliVars, reportVars>>

\* lines 121-156: one iteration of the while loop
FetchPage ==
    /\ pc = "fetch"
    /\ Len(models) < limit
    /\ \E r \in Responses(page) :
          /\ requests' = Append(requests, page * PAGE_SIZE)
          /\ responses' = Append(responses, r)
          /\ CASE r.status = "error" ->
                    /\ pc' = "fetched"
                    /\ UNCHANGED <<models, page, exit_code>>
               [] r.status = "malformed" ->
                    /\ pc' = "crashed"
                    /\ exit_code' = 1
                    /\ UNCHANGED <<models, page>>
               [] r.status = "ok" /\ r.batch = <<>> ->
                    /\ pc' = "fetched"
                    /\ UNCHANGED <<models, page, exit_code>>
               [] OTHER ->
                    /\ models' = AppendBatch(models, r.batch, 1, min_downloads, limit)
                    /\ page' = page + 1
                    /\ UNCHANGED <<pc, exit_code>>
    /\ UNCHANGED <<scraperVars, registryVars, matcherVars, cliVars, reportVars>>

\* lines 121, 158-159: the loop condition fails and the list is returned
FetchDone ==
    /\ pc = "fetch"
    /\ Len(models) >= limit
    /\ pc' = "fetched"
    /\ UNCHANGED <<scraperVars, registryVars, matcherVars, finderVars, exit_code>>

----------------------------------------------------------------------------
(* Missing-set builder and reporter *)

\* lines 234, 236: the priority thresholds
HIGH_PRIORITY_DOWNLOADS == 100000
MEDIUM_PRIORITY_DOWNLOADS == 10000
\* lines 310, 328, 341, 313: how many entries and tags the report lists
TOP_HIGH == 50
TOP_MEDIUM == 20
TOP_COMMANDS == 10
TOP_TAGS == 3


\* lines 243-248
type_tags ==
    <<"text-generation", "text2text-generation", "image-to-text", "text-to-image",
      "automatic-speech-recognition", "audio-classification",
      "image-classification", "object-detection">>

\* ModelType taking the first type tag, in the order of type_tags, that the
\* model has
ModelType_FixedOrder(tags) ==
    LET hits == {i \in 1..Len(type_tags) : type_tags[i] \in Range(tags)}
    IN  IF hits = {} THEN "other"
        ELSE type_tags[CHOOSE i \in hits : \A j \in hits : i <= j]

\* lines 242, 250-253: the first tag of the model that is a type tag
ModelType(tags) ==
    LET hits == {i \in 1..Len(tags) : tags[i] \in Range(type_tags)}
    IN  IF hits = {} THEN "other"
        ELSE tags[CHOOSE i \in hits : \A j \in hits : i <= j]

\* lines 255-257: by_type keeps its keys in insertion order
AddByType(by_type, t, model) ==
    IF \E i \in 1..Len(by_type) : by_type[i].type = t
    THEN [i \in 1..Len(by_type) |->
             IF by_type[i].type = t
             THEN [by_type[i] EXCEPT !.models = Append(@, model)]
             ELSE by_type[i]]
    ELSE Append(by_type, [type |-> t, models |-> <<model>>])

\* PriorityOf with > where the code has >=
PriorityOf_Strict(downloads) ==
    IF downloads > HIGH_PRIORITY_DOWNLOADS THEN "high_priority"
    ELSE IF downloads > MEDIUM_PRIORITY_DOWNLOADS THEN "medium_priority"
    ELSE "low_priority"

\* lines 233-239: the priority list a download count goes to
PriorityOf(downloads) ==
    IF downloads >= HIGH_PRIORITY_DOWNLOADS THEN "high_priority"
    ELSE IF downloads >= MEDIUM_PRIORITY_DOWNLOADS THEN "medium_priority"
    ELSE "low_priority"

\* lines 229-257: the loop over missing_models, from its entry i on
RECURSIVE CategorizeFrom(_, _, _)
CategorizeFrom(ms, i, cats) ==
    IF i > Len(ms) THEN cats
    ELSE LET model == ms[i]
             downloads == Get(model, "downloads", 0)
             tags == Get(model, "tags", <<>>)
             prio == PriorityOf(downloads)
         IN  CategorizeFrom(ms, i + 1,
                 [cats EXCEPT ![prio] = Append(@, model),
                              !.by_type = AddByType(@, ModelType(tags), model)])

\* MissingModelsFinder.categorize_missing_models
categorize_missing_models(ms) == CategorizeFrom(ms, 1, NoCategories)

\* sorted_desc that puts an element before the earlier elements of equal key
RECURSIVE sorted_desc_Unstable(_)
sorted_desc_Unstable(pairs) ==
    IF pairs = <<>> THEN <<>>
    ELSE LET front == sorted_desc_Unstable(SubSeq(pairs, 1, Len(pairs) - 1))
             x == pairs[Len(pairs)]
             k == Cardinality({i \in 1..Len(front) : front[i].key > x.key})
         IN  SubSeq(front, 1, k) \o <<x>> \o SubSeq(front, k + 1, Len(front))

\* sorted(..., reverse=True) on [key, val] pairs: descending by key, equal
\* keys in their original order
RECURSIVE sorted_desc(_)
sorted_desc(pairs) ==
    IF pairs = <<>> THEN <<>>
    ELSE LET front == sorted_desc(SubSeq(pairs, 1, Len(pairs) - 1))
             x == pairs[Len(pairs)]
             k == Cardinality({i \in 1..Len(front) : front[i].key >= x.key})
         IN  SubSeq(front, 1, k) \o <<x>> \o SubSeq(front, k + 1, Len(front))

\* lines 308-310: the models by descending download count
ByDownloads(ms) ==
    LET pairs == [i \in 1..Len(ms) |-> [key |-> Get(ms[i], "downloads", 0), val |-> ms[i]]]
        srt == sorted_desc(pairs)
    IN  [i \in 1..Len(srt) |-> srt[i].val]

\* lines 277-348: the content of the report text
ReportOf(ms, mot) ==
    LET cats == categorize_missing_models(ms)
        types == sorted_desc([i \in 1..Len(cats.by_type) |->
                     [key |-> Len(cats.by_type[i].models), val |-> cats.by_type[i].type]])
        high == Take(ByDownloads(cats.high_priority), TOP_HIGH)
        medium == Take(ByDownloads(cats.medium_priority), TOP_MEDIUM)
        cmds == Take(ByDownloads(cats.high_priority), TOP_COMMANDS)
    IN  [ n_mot |-> Len(mot),
          n_missing |-> Len(ms),
          n_high |-> Len(cats.high_priority),
          n_medium |-> Len(cats.medium_priority),
          n_low |-> Len(cats.low_priority),
          by_type |-> [i \in 1..Len(types) |->
                          [type |-> types[i].val, count |-> types[i].key]],
          high |-> [i \in 1..Len(high) |->
                       [id |-> Get(high[i], "id", Chars("unknown")),
                        downloads |-> Get(high[i], "downloads", 0),
                        tags |-> Take(Get(high[i], "tags", <<>>), TOP_TAGS)]],
          medium |-> [i \in 1..Len(medium) |->
                         [id |-> Get(medium[i], "id", Chars("unknown")),
                          downloads |-> Get(medium[i], "downloads", 0)]],
          commands |-> [i \in 1..Len(cmds) |-> Get(cmds[i], "id", Chars("unknown"))] ]

\* main, lines 410-419: the remote models that are not in the registry
Compare ==
    /\ pc = "fetched"
    /\ missing_models' = SelectSeq(models, LAMBDA m : ~is_model_in_mot(m, mot_models)[1])
    /\ pc' = "compared"
    /\ UNCHANGED <<scraperVars, registryVars, matcherVars, cliVars, fetchVars,
                   categories, report, report_saved, exit_code>>

\* main, lines 421-445, and generate_report
GenerateReport ==
    /\ pc = "compared"
    /\ categories' = categorize_missing_models(missing_models)
    /\ report' = ReportOf(missing_models, mot_models)
    /\ report_saved' = output_file
    /\ pc' = "done"
    /\ exit_code' = 0
    /\ UNCHANGED <<scraperVars, registryVars, matcherVars, cliVars, fetchVars, missing_models>>

\* longest list of missing models a report is generated for
MaxMissing == 75

\* lists of missing models for the reporter: the first n models of a series
\* whose download counts and tags repeat with different periods, so that
\* equal counts, all three priorities and several types occur
ReporterInputs ==
    LET counts == << <<100000, 50000, 500000, 100000, 10000, 200000, 100000>>,
                     <<500000, 50000, 5000, 100000, 10000, 50000, 99999>>,
                     <<50000, 10000, 50000, 9999>> >>
        tags == << <<"object-detection">>, <<"pytorch", "image-to-text">>, <<>>,
                   <<"image-to-text", "text-generation">>,
                   <<"pytorch", "text-generation", "image-to-text", "text-to-image">> >>
        Model(series, k) ==
            Entry(Chars("org/m") \o IntToStr(k),
                  counts[series][((k - 1) % Len(counts[series])) + 1],
                  tags[((k - 1) % Len(tags)) + 1])
    IN  { [k \in 1..n |-> Model(series, k)] \o <<>> :
            series \in 1..3, n \in 0..MaxMissing }

\* the registries the finder runs against
RegistryPool ==
    { <<>>,
      <<[stem |-> "a",
         content |-> [kind |-> "ok", name |-> Chars("Llama-2-7B"), origin |-> <<>>,
                      huggingface |-> <<>>]]>> }

----------------------------------------------------------------------------
(* The three runs: the loader and matcher, the finder, the scraper *)

\* no call of is_model_in_mot yet
MatcherIdle ==
    /\ hf_model = NoModel
    /\ variations = {}
    /\ is_present = FALSE
    /\ matched_file = ""

\* the finder has not fetched or reported anything
FinderIdle ==
    /\ min_downloads = 0
    /\ limit = 0
    /\ output_file = FALSE
    /\ catalog_pages = 0
    /\ page = 0
    /\ models = <<>>
    /\ requests = <<>>
    /\ responses = <<>>
    /\ missing_models = <<>>
    /\ categories = NoCategories
    /\ report = NoReport
    /\ report_saved = FALSE

\* the scraper has not run
ScraperIdle ==
    /\ arg_model_id = <<>>
    /\ info_resp = NotCalled
    /\ card_resp = NotCalled
    /\ tree_resp = NotCalled
    /\ scraped_data = EmptyData
    /\ metadata = NoMetadata
    /\ components = <<>>
    /\ probes = <<>>
    /\ yaml_output = <<>>
    /\ output_written = FALSE

InitMatcher ==
    /\ pc = "load"
    /\ yaml_files \in FileLists
    /\ file_idx = 1
    /\ mot_models = <<>>
    /\ warnings = <<>>
    /\ MatcherIdle
    /\ FinderIdle
    /\ ScraperIdle
    /\ exit_code = -1

NextMatcher == LoadFile \/ LoadDone \/ Match

SpecMatcher == InitMatcher /\ [][NextMatcher]_vars

\* main at line 403: the registry is loaded, nothing is fetched yet
FinderStart(limits) ==
    /\ pc = "fetch"
    /\ yaml_files \in RegistryPool
    /\ file_idx = Len(yaml_files) + 1
    /\ mot_models = [i \in 1..Len(yaml_files) |-> MotEntry(yaml_files[i])]
    /\ warnings = <<>>
    /\ MatcherIdle
    /\ min_downloads \in MinDownloadsPool
    /\ limit \in limits
    /\ output_file \in BOOLEAN
    /\ catalog_pages \in 0..MaxPages
    /\ page = 0
    /\ models = <<>>
    /\ requests = <<>>
    /\ responses = <<>>
    /\ missing_models = <<>>
    /\ categories = NoCategories
    /\ report = NoReport
    /\ report_saved = FALSE
    /\ ScraperIdle
    /\ exit_code = -1

\* the runs with a limit of zero or more
InitFinder == FinderStart(0..MaxLimit)

\* the runs with any limit, a negative one included (--limit takes any int)
InitFinderAnyLimit == FinderStart(-1..MaxLimit)

NextFinder == FetchPage \/ FetchDone \/ Compare \/ GenerateReport

SpecFinder == InitFinder /\ [][NextFinder]_vars

\* the finder is one sequential program: a step that can be taken is taken
\* (every request returns or raises within its timeout, line 137)
SpecFinderFair ==
    InitFinderAnyLimit /\ [][NextFinder]_vars /\ WF_vars(FetchPage \/ FetchDone)

\* main at line 421: the missing models are known, no report is generated yet
InitReporter ==
    /\ pc = "compared"
    /\ yaml_files = <<>>
    /\ file_idx = 1
    /\ mot_models = <<>>
    /\ warnings = <<>>
    /\ MatcherIdle
    /\ min_downloads = 0
    /\ missing_models \in ReporterInputs
    /\ models = missing_models
    /\ limit = Len(models)
    /\ output_file \in BOOLEAN
    /\ catalog_pages = 1
    /\ page = IF models = <<>> THEN 0 ELSE 1
    /\ requests = IF models = <<>> THEN <<>> ELSE <<0>>
    /\ responses = IF models = <<>> THEN <<>> ELSE <<[status |-> "ok", batch |-> models]>>
    /\ categories = NoCategories
    /\ report = NoReport
    /\ report_saved = FALSE
    /\ ScraperIdle
    /\ exit_code = -1

NextReporter == GenerateReport

SpecReporter == InitReporter /\ [][NextReporter]_vars

\* main at line 516: the arguments are parsed, nothing is fetched yet
InitScraper ==
    /\ pc = "scrape"
    /\ yaml_files = <<>>
    /\ file_idx = 1
    /\ mot_models = <<>>
    /\ warnings = <<>>
    /\ MatcherIdle
    /\ FinderIdle
    /\ arg_model_id \in ModelIdPool
    /\ info_resp = NotCalled
    /\ card_resp = NotCalled
    /\ tree_resp = NotCalled
    /\ scraped_data = EmptyData
    /\ metadata = NoMetadata
    /\ components = <<>>
    /\ probes = <<>>
    /\ yaml_output = <<>>
    /\ output_written = FALSE
    /\ exit_code = -1

NextScraper == Scrape \/ ExitFailed \/ GenerateYaml

SpecScraper == InitScraper /\ [][NextScraper]_vars

\* main at line 529: a scrape has returned a model, no draft is generated yet
InitExtractor ==
    /\ pc = "scraped"
    /\ yaml_files = <<>>
    /\ file_idx = 1
    /\ mot_models = <<>>
    /\ warnings = <<>>
    /\ MatcherIdle
    /\ FinderIdle
    /\ scraped_data \in ExtractorInputs
    /\ arg_model_id = scraped_data.model_id
    /\ info_resp = [status |-> "200", json |-> scraped_data.model_info]
    /\ card_resp = IF scraped_data.model_card = <<>> THEN [status |-> "404"]
                   ELSE [status |-> "200", text |-> scraped_data.model_card]
    /\ tree_resp = [status |-> "200",
                    json |-> JList([i \in 1..Len(scraped_data.repo_files) |->
                                       TreeFile(scraped_data.repo_files[i])])]
    /\ metadata = NoMetadata
    /\ components = <<>>
    /\ probes = <<>>
    /\ yaml_output = <<>>
    /\ output_written = FALSE
    /\ exit_code = -1

NextExtractor == GenerateYaml

SpecExtractor == InitExtractor /\ [][NextExtractor]_vars

----------------------------------------------------------------------------
(* Properties of the matcher and the loader, under SpecMatcher *)

\* whether the variant set of the last call meets the identifiers of entry i
Intersects(i) == variations \cap mot_models[i].identifiers # {}

\* s with every character a changed to b, position by position
SwapChars(s, a, b) == [i \in 1..Len(s) |-> IF s[i] = a THEN b ELSE s[i]]

\* the part of s after its last '/'
TrailingSegment(s) ==
    CHOOSE t \in {SubSeq(s, k + 1, Len(s)) : k \in 1..Len(s)} \cup {s} :
        /\ \A i \in 1..Len(t) : t[i] # "/"
        /\ \/ t = s
           \/ s[Len(s) - Len(t)] = "/"

\* C1 as stated: every record whose identifier set meets the variant set of
\* the remote identifier is the record whose file is reported
C1_AnyMatchingRecordIsNamed ==
    pc = "matched" =>
        \A i \in 1..Len(mot_models) :
            Intersects(i) => is_present /\ matched_file = mot_models[i].file

\* C1 amended: a remote identifier whose variant set meets the identifier
\* set of a record R is reported present, the file named is that of a record
\* that meets the variant set and stands at or before R in the mapping, and it
\* is R's file when no record before R meets the variant set
C1_MatchingRecordMakesPresent ==
    pc = "matched" =>
        \A i \in 1..Len(mot_models) :
            Intersects(i) =>
                /\ is_present
                /\ \E j \in 1..i : Intersects(j) /\ matched_file = mot_models[j].file
                /\ (\A j \in 1..(i - 1) : ~Intersects(j)) =>
                       matched_file = mot_models[i].file

C1_Witness ==
    /\ pc = "matched"
    /\ Len(mot_models) = 2
    /\ Intersects(1)
    /\ Intersects(2)
    /\ is_present
    /\ matched_file = mot_models[1].file

\* C2: is_model_in_mot reports present exactly when some record's identifier
\* set meets the variant set, (False, '') otherwise, and names the file of the
\* first such record; with the single record Llama-2-7B (no catalog link),
\* meta-llama/Llama-2-7B is present and meta-llama/Llama-3-8B is missing
C2_PresentIffSomeRecordIntersects ==
    pc = "matched" =>
        /\ is_present <=> \E i \in 1..Len(mot_models) : Intersects(i)
        /\ ~is_present => matched_file = ""
        /\ is_present =>
               \E i \in 1..Len(mot_models) :
                   /\ Intersects(i)
                   /\ \A j \in 1..(i - 1) : ~Intersects(j)
                   /\ matched_file = mot_models[i].file
        /\ ( /\ Len(mot_models) = 1
             /\ mot_models[1].name = Chars("Llama-2-7B")
             /\ mot_models[1].origin = <<>>
             /\ mot_models[1].huggingface = <<>> ) =>
               /\ hf_model.id = Chars("meta-llama/Llama-2-7B") =>
                      is_present /\ matched_file = mot_models[1].file
               /\ hf_model.id = Chars("meta-llama/Llama-3-8B") =>
                      ~is_present /\ matched_file = ""

C2_Witness ==
    /\ pc = "matched"
    /\ Len(mot_models) = 1
    /\ mot_models[1].name = Chars("Llama-2-7B")
    /\ mot_models[1].huggingface = <<>>
    /\ hf_model.id = Chars("meta-llama/Llama-2-7B")
    /\ is_present
    /\ matched_file = mot_models[1].file

\* C3: for org/name the variant set contains the lower-cased identifier, the
\* lower-cased trailing segment and both swapped forms of each; without '/'
\* it is exactly the lower-cased identifier and its two swapped forms
C3_VariantSetContents ==
    pc = "matched" =>
        LET id == Get(hf_model, "id", <<>>)
            full == lower(id)
            tail == lower(TrailingSegment(id))
        IN  IF \E i \in 1..Len(id) : id[i] = "/"
            THEN { full, SwapChars(full, "-", "_"), SwapChars(full, "_", "-"),
                   tail, SwapChars(tail, "-", "_"), SwapChars(tail, "_", "-") }
                     \subseteq variations
            ELSE variations =
                   { full, SwapChars(full, "-", "_"), SwapChars(full, "_", "-") }

C3_Witness ==
    /\ pc = "matched"
    /\ hf_model.id = Chars("org/Q-X_1")
    /\ Cardinality(variations) = 6

\* the identifier sets of the loaded entries are those given by Expected
IdentifiersAre(Expected(_)) ==
    \A i \in 1..Len(mot_models) :
        LET e == mot_models[i]
            n == lower(e.name)
        IN  e.identifiers =
              (IF e.name # <<>>
               THEN {n, SwapChars(n, "-", "_"), SwapChars(n, "_", "-")} ELSE {})
              \cup (IF e.origin # <<>> THEN {lower(e.origin)} ELSE {})
              \cup (IF e.huggingface # <<>> THEN {Expected(e.huggingface)} ELSE {})

\* the catalog URL without its leading https://huggingface.co/, lower-cased
CatalogId(url) ==
    lower(IF Len(url) >= Len(HF_PREFIX) /\ SubSeq(url, 1, Len(HF_PREFIX)) = HF_PREFIX
          THEN SubSeq(url, Len(HF_PREFIX) + 1, Len(url))
          ELSE url)

\* the part of the catalog URL after its last '/', lower-cased
CatalogSlug(url) == lower(TrailingSegment(url))

\* C4 as stated: the catalog URL contributes its trailing path segment
C4_IdentifiersUseTrailingSegment == IdentifiersAre(CatalogSlug)

\* C4 amended: the identifier set is the lower-cased name and its two swapped
\* forms, the lower-cased origin, and the lower-cased catalog URL with the
\* text https://huggingface.co/ removed (the whole org/name), each only when
\* the field is non-empty
C4_IdentifiersUseCatalogId == IdentifiersAre(CatalogId)

C4_Witness ==
    \E i \in 1..Len(mot_models) :
        /\ mot_models[i].huggingface = HF_PREFIX \o Chars("org/Q-X_1")
        /\ mot_models[i].name = Chars("Q_x-1")
        /\ Cardinality(mot_models[i].identifiers) = 4

----------------------------------------------------------------------------
(* Properties of the catalog client and the reporter, under SpecFinder *)

\* the download count of a remote entry, 0 when it has none
Downloads(m) == IF "downloads" \in m.keys THEN m.downloads ELSE 0

\* the entries of the first n responses, in the order received
RECURSIVE Received(_)
Received(n) == IF n = 0 THEN <<>> ELSE Received(n - 1) \o responses[n].batch

\* the entries of seq at or above the threshold
AtOrAbove(seq) == SelectSeq(seq, LAMBDA m : Downloads(m) >= min_downloads)

\* the first n entries of seq
FirstN(seq, n) == [i \in 1..(IF n < Len(seq) THEN n ELSE Len(seq)) |-> seq[i]]

C6_PagingAndFilter ==
    /\ Len(requests) = Len(responses)
    /\ \A k \in 1..Len(requests) :
          /\ requests[k] = (k - 1) * 100
          /\ Len(AtOrAbove(Received(k - 1))) < limit
          /\ k > 1 => responses[k - 1].status = "ok" /\ responses[k - 1].batch # <<>>
    /\ pc \in {"fetched", "compared", "done"} =>
          \/ Len(models) >= limit
          \/ /\ responses # <<>>
             /\ responses[Len(responses)].batch = <<>>
    /\ models = FirstN(AtOrAbove(Received(Len(responses))), limit)
    /\ \A i \in 1..Len(models) : Downloads(models[i]) >= min_downloads
    /\ Len(models) <= limit
    /\ ( /\ responses # <<>>
         /\ responses[1].batch = <<E_500000, E_50000, E_5000>>
         /\ min_downloads = 10000 ) =>
           /\ FirstN(models, 2) = FirstN(<<E_500000, E_50000>>, limit)
           /\ E_5000 \notin Range(models)

C6_Witness ==
    /\ pc = "fetched"
    /\ requests = <<0, 100, 200>>
    /\ min_downloads = 10000
    /\ limit = 3
    /\ responses[1].batch = <<E_500000, E_50000, E_5000>>
    /\ models = <<E_500000, E_50000>>

\* C7: a failed page request is the last request, the function returns
\* without raising what it had accumulated, and a failure of the first
\* request gives the empty list, reported as zero missing models with a
\* zero exit status
C7_FailureEndsFetch ==
    \A k \in 1..Len(responses) :
        responses[k].status = "error" =>
            /\ k = Len(responses)
            /\ Len(requests) = k
            /\ pc \in {"fetched", "compared", "done"}
            /\ exit_code \in {-1, 0}
            /\ models = FirstN(AtOrAbove(Received(k - 1)), limit)
            /\ k = 1 =>
                  /\ models = <<>>
                  /\ pc = "done" =>
                        /\ missing_models = <<>>
                        /\ report.n_missing = 0
                        /\ exit_code = 0

C7_Witness ==
    /\ pc = "done"
    /\ Len(responses) = 2
    /\ responses[2].status = "error"
    /\ models = <<E_500000, E_50000>>
    /\ exit_code = 0

----------------------------------------------------------------------------
(* Properties of the scraper (SpecScraper) *)

\* the process is over: the draft is written, the run ended with status 1, or
\* an exception ended it
Exited == pc \in {"done", "scrape_raised", "generate_raised"}

\* scrape_huggingface_model returned
Returned == pc \in {"scraped", "done", "generate_raised"}

PrimaryFailed == info_resp.status = "error"

\* a file-tree body that is no list of maps with a 'path'
MalformedTree(j) ==
    \/ j.t # "list"
    \/ \E i \in 1..Len(j.v) : j.v[i].t # "dict" \/ FILE_KEY \notin DOMAIN j.v[i].v

\* C8: scrape_huggingface_model returns the empty result iff the primary
\* model-info call fails; a failed or non-200 model-card or file-tree call
\* leaves only its own field empty and the other fields as fetched; and the
\* process exits with a non-zero status exactly when the primary call failed,
\* writing no output file in that case.
C8_ExitNonZeroIffPrimaryFailed ==
    /\ Returned =>
          /\ scraped_data.keys = {} <=> PrimaryFailed
          /\ scraped_data.keys # {} =>
                /\ scraped_data.model_info = info_resp.json
                /\ scraped_data.model_card =
                      (IF card_resp.status = "200" THEN card_resp.text ELSE <<>>)
                /\ tree_resp.status # "200" => scraped_data.repo_files = <<>>
    /\ Exited =>
          /\ exit_code # 0 <=> PrimaryFailed
          /\ PrimaryFailed => ~output_written

\* C9: a file-tree response with HTTP success whose body has an entry without
\* a 'path' key, or is no list of maps, never makes the scrape raise: the
\* scrape returns a non-empty result whose file list is empty.
C9_MalformedTreeGivesEmptyFileList ==
    /\ pc # "scrape_raised"
    /\ (pc # "scrape" /\ tree_resp.status = "200" /\ MalformedTree(tree_resp.json)) =>
          /\ scraped_data.keys # {}
          /\ scraped_data.repo_files = <<>>

\* C10: generate_yaml never fails for a scraped model returned by a
\* successful scrape, whatever the model-info blob holds: once the scrape
\* returned a non-empty result the run ends with the draft written and a
\* metadata record.
C10_GenerateYamlNeverFails ==
    /\ pc # "generate_raised"
    /\ (Exited /\ scraped_data.keys # {}) =>
          /\ output_written
          /\ "name" \in metadata.keys
          /\ yaml_output # <<>>

----------------------------------------------------------------------------
(* Properties of the extractor (SpecExtractor) *)

CandidateNames ==
    { "Model parameters (Final)", "Model metadata", "Model architecture",
      "Inference code", "Model card", "Technical report", "Research paper",
      "Evaluation results", "Training dataset" }

\* the candidates found in the free text
KeywordCandidates ==
    { "Technical report", "Research paper", "Evaluation results", "Training dataset" }

\* the names of a components list, in order and as a set
NameSeq(comps) == [i \in 1..Len(comps) |-> comps[i].name] \o <<>>
NamesOf(comps) == {comps[i].name : i \in 1..Len(comps)}

\* the sets of names detect_components returns on the detector inputs
DetectableSets == {NamesOf(detect_components(d).val) : d \in DetectorInputs}

\* a set of names in which a free-text candidate comes with 'Model card'
CardClosed(S) == S \cap KeywordCandidates # {} => "Model card" \in S

\* C11 as stated: for every subset S of the nine candidate names there is a
\* scraped model for which detect_components returns exactly the candidates
\* in S.
C11_EverySubsetDetectable ==
    pc = "done" => \A S \in SUBSET CandidateNames : S \in DetectableSets

\* C11, amended: a candidate found in the free text is never returned without
\* 'Model card' (a non-empty free text is itself evidence of a model card),
\* and every subset of the nine names that respects this is returned for some
\* scraped model; no other dependency exists between the detectors.
C11_CardClosedSubsetsDetectable ==
    /\ pc = "done" => /\ NamesOf(components) \subseteq CandidateNames
                      /\ CardClosed(NamesOf(components))
    /\ DetectableSets = {S \in SUBSET CandidateNames : CardClosed(S)}

C11_Witness ==
    /\ pc = "done"
    /\ scraped_data.repo_files = <<>>
    /\ NamesOf(components) = {"Model card", "Research paper", "Training dataset"}

HasFile(name) == Chars(name) \in Range(scraped_data.repo_files)

\* the precondition of C12: model.safetensors and config.json are listed and
\* no .py file is
TwoFileScenario ==
    /\ pc \in {"done", "generate_raised"}
    /\ HasFile("model.safetensors")
    /\ HasFile("config.json")
    /\ \A f \in Range(scraped_data.repo_files) : ~endswith(f, Chars(".py"))

MetadataFields ==
    { "name", "version", "date", "type", "architecture", "origin", "producer",
      "huggingface", "repository", "repository_confidence" }

\* a field that is present with a non-empty value
HasValue(md, field) ==
    /\ field \in md.keys
    /\ IF field = "repository_confidence" THEN md[field] # 0 ELSE md[field] # <<>>

\* where the release section of the draft starts and ends
ReleaseStart == CHOOSE i \in 1..Len(yaml_output) :
                    yaml_output[i].key = "release" /\ yaml_output[i].indent = 0
ReleaseEnd == CHOOSE i \in 1..Len(yaml_output) :
                  yaml_output[i].key = "components" /\ yaml_output[i].indent = 2

\* the lines of the release section that carry a field
LinesOf(field) ==
    {i \in (ReleaseStart + 1)..(ReleaseEnd - 1) : yaml_output[i].key = field}

\* the license line of the i-th component block
LicenseLineOf(i) == yaml_output[ReleaseEnd + 4 * i]

\* a component license that is empty or 'unlicensed'
NoLicense(license) == ~Truthy(license) \/ license = UNLICENSED

\* C13: in the draft, every field of the extracted metadata with a non-empty
\* value (name, version, date, type, architecture, origin, producer,
\* huggingface, repository, repository_confidence) has exactly one line; and a
\* component whose license is empty or 'unlicensed' has the line
\* 'license: unlicensed', never an empty quoted string.
C13_EveryFieldHasOneLine ==
    pc = "done" =>
        /\ \A field \in MetadataFields :
              HasValue(metadata, field) =>
                  /\ Cardinality(LinesOf(field)) = 1
                  /\ \A i \in LinesOf(field) :
                        field # "repository_confidence" =>
                            yaml_output[i].value = metadata[field]
        /\ \A i \in 1..Len(components) :
              /\ LicenseLineOf(i).key = "license"
              /\ NoLicense(components[i].license) =>
                    LicenseLineOf(i) = Line(6, "license", "plain", Chars("unlicensed"))
              /\ LicenseLineOf(i).style = "single" => LicenseLineOf(i).value # <<>>

\* the repository URLs of the free text, cleaned as line 284 does
CardUrls ==
    LET github_urls == findall(scraped_data.model_card, 1)
    IN  [i \in 1..Len(github_urls) |-> rstrip(github_urls[i], ")")] \o <<>>

\* the model's trailing name segment, as line 281 compares it
TrailingName == lower(split_last(scraped_data.model_id, "/"))

NamedUrls == {i \in 1..Len(CardUrls) : contains(lower(CardUrls[i]), TrailingName)}

\* what _detect_repository returned: the link and its confidence in hundredths
RepositoryFound == "repository" \in metadata.keys
Returns(url, confidence) ==
    /\ RepositoryFound
    /\ metadata.repository = url
    /\ metadata.repository_confidence = confidence

\* C14: _detect_repository tries its tiers in order, a later one only when
\* every earlier one found nothing: (a) with repository URLs in the free text
\* it returns the first one containing the trailing name segment with 0.90,
\* else the first URL with 0.70, and probes nothing; (b) otherwise it probes
\* the URL of the full identifier and returns it with 0.65 if it exists; (c)
\* otherwise, for org/name identifiers, it probes the URLs of the organization
\* plus base names in turn and returns the first that exists with 0.60;
\* otherwise no repository. A probe is made only after all earlier ones failed.
C14_RepositoryTiersInOrder ==
    pc = "done" =>
        /\ CardUrls # <<>> =>
              /\ probes = <<>>
              /\ NamedUrls # {} =>
                    \E i \in NamedUrls : /\ Returns(CardUrls[i], 90)
                                         /\ \A j \in NamedUrls : i <= j
              /\ NamedUrls = {} => Returns(CardUrls[1], 70)
        /\ CardUrls = <<>> =>
              /\ Len(probes) >= 1
              /\ probes[1].url = GITHUB_PREFIX \o scraped_data.model_id
              /\ \A i \in 1..(Len(probes) - 1) : ~probes[i].exists
              /\ probes[1].exists => Returns(probes[1].url, 65)
              /\ \A i \in 2..Len(probes) :
                    /\ contains(scraped_data.model_id, SLASH)
                    /\ probes[i].url = BaseNameRepos(scraped_data.model_id)[i - 1]
                    /\ probes[i].exists => Returns(probes[i].url, 60)
              /\ ~probes[Len(probes)].exists =>
                    /\ ~RepositoryFound
                    /\ Len(probes) = IF contains(scraped_data.model_id, SLASH) THEN 4 ELSE 1

C14_Witness ==
    /\ pc = "done"
    /\ CardUrls = <<>>
    /\ Len(probes) = 3
    /\ Returns(Chars("https://github.com/mistralai/mistral-7b-v0.1"), 60)

\* the free text and the stringified tag list, lower-cased
CardText == lower(scraped_data.model_card)
TagsText == lower(JToStr(JGet(scraped_data.model_info, "tags", JList(<<>>)).val))

\* a keyword occurs in the free text or in the tags
Mentions(keyword) == contains(CardText, Chars(keyword)) \/ contains(TagsText, Chars(keyword))

\* C15: with 'transformer' in the free text or the tags the architecture is
\* the encoder-decoder sub-variant when the text contains 'encoder-decoder',
\* the decoder sub-variant when it contains 'decoder' otherwise, and plain
\* 'transformer' when it contains neither; without 'transformer' it is
\* 'diffusion' when that occurs in the free text or the tags, else empty.
C15_ArchitectureSubVariants ==
    pc = "done" =>
        /\ Mentions("transformer") =>
              /\ contains(CardText, Chars("encoder-decoder")) =>
                    metadata.architecture = Chars("transformer encoder-decoder")
              /\ (contains(CardText, Chars("decoder"))
                  /\ ~contains(CardText, Chars("encoder-decoder"))) =>
                    metadata.architecture = Chars("transformer decoder")
              /\ ~contains(CardText, Chars("decoder")) =>
                    metadata.architecture = Chars("transformer")
        /\ (~Mentions("transformer") /\ Mentions("diffusion")) =>
              metadata.architecture = Chars("diffusion")
        /\ (~Mentions("transformer") /\ ~Mentions("diffusion")) =>
              metadata.architecture = <<>>

----------------------------------------------------------------------------
(* Properties of the registry loader (SpecMatcher) *)

\* the files the loop has gone through
FilesRead == {yaml_files[i] : i \in 1..(file_idx - 1)}

\* C17: every file the loop has gone through either appears in the mapping
\* under its stem, when it holds a release, or was skipped with a warning
\* naming it
C17_SkippedFilesAreLogged ==
    \A f \in FilesRead :
        IF f.content.kind = "ok"
        THEN \E i \in 1..Len(mot_models) : mot_models[i] = MotEntry(f)
        ELSE /\ \A i \in 1..Len(mot_models) : mot_models[i].stem # f.stem
             /\ \E i \in 1..Len(warnings) : warnings[i] = FileName(f)

----------------------------------------------------------------------------
(* Properties of the reporter (SpecReporter) *)

\* element i of bucket b is listed before element j: more downloads, or as
\* many and earlier in the input
ListedBefore(b, i, j) ==
    \/ b[i].downloads > b[j].downloads
    \/ b[i].downloads = b[j].downloads /\ i < j

\* the place of element i of bucket b in the full ordering
Rank(b, i) == 1 + Cardinality({j \in 1..Len(b) : ListedBefore(b, j, i)})

\* the listing holds the first top elements of the ordering of b, in order
ListsTop(b, ids, top) ==
    /\ Len(ids) = IF Len(b) < top THEN Len(b) ELSE top
    /\ \A i \in 1..Len(b) : Rank(b, i) <= top => ids[Rank(b, i)] = b[i].id

\* the places of the input whose model has type t
PlacesOf(t) ==
    {i \in 1..Len(missing_models) : ModelType(missing_models[i].tags) = t}

FirstPlace(t) == CHOOSE i \in PlacesOf(t) : \A j \in PlacesOf(t) : i <= j

TypesPresent ==
    {ModelType(missing_models[i].tags) : i \in 1..Len(missing_models)}

\* the place of type t among the per-type lines
TypeRank(t) ==
    1 + Cardinality({u \in TypesPresent :
            \/ Cardinality(PlacesOf(u)) > Cardinality(PlacesOf(t))
            \/ /\ Cardinality(PlacesOf(u)) = Cardinality(PlacesOf(t))
               /\ FirstPlace(u) < FirstPlace(t)})

\* C16: the high-priority section lists the at most 50 high-bucket models
\* with the most downloads in descending order, the medium-priority section
\* the at most 20 largest medium-bucket models likewise, the commands name
\* the first 10 identifiers of the high-priority ordering, equal download
\* counts keep their input order, and the per-type lines are in descending
\* order of count with equal counts in order of first occurrence in the input
C16_ReportOrdering ==
    pc = "done" =>
        /\ ListsTop(categories.high_priority,
                    [i \in 1..Len(report.high) |-> report.high[i].id], TOP_HIGH)
        /\ \A i \in 1..Len(report.high) - 1 :
               report.high[i].downloads >= report.high[i + 1].downloads
        /\ ListsTop(categories.medium_priority,
                    [i \in 1..Len(report.medium) |-> report.medium[i].id], TOP_MEDIUM)
        /\ \A i \in 1..Len(report.medium) - 1 :
               report.medium[i].downloads >= report.medium[i + 1].downloads
        /\ ListsTop(categories.high_priority, report.commands, TOP_COMMANDS)
        /\ Len(report.by_type) = Cardinality(TypesPresent)
        /\ \A t \in TypesPresent :
               report.by_type[TypeRank(t)] =
                   [type |-> t, count |-> Cardinality(PlacesOf(t))]

\* a report whose high and medium sections are both cut short, with equal
\* download counts in both, and whose most frequent type is not the first
\* one of the input
C16_Witness ==
    /\ pc = "done"
    /\ Len(categories.high_priority) > TOP_HIGH
    /\ Len(categories.medium_priority) > TOP_MEDIUM
    /\ \E i \in 1..(Len(report.high) - 1) :
           report.high[i].downloads = report.high[i + 1].downloads
    /\ \E i \in 1..(Len(report.medium) - 1) :
           report.medium[i].downloads = report.medium[i + 1].downloads
    /\ report.by_type[1].type # ModelType(missing_models[1].tags)
    /\ \E i \in 1..(Len(report.by_type) - 1) :
           report.by_type[i].count = report.by_type[i + 1].count

\* the type buckets that hold the model
BucketsOf(model) ==
    {i \in 1..Len(categories.by_type) :
        \E k \in 1..Len(categories.by_type[i].models) :
            categories.by_type[i].models[k] = model}

\* t is the first tag of the list that is one of the eight type tags, or
\* 'other' when the list has none
IsTypeOf(t, tags) ==
    \/ /\ t = "other"
       /\ \A k \in 1..Len(tags) : tags[k] \notin Range(type_tags)
    \/ \E k \in 1..Len(tags) :
          /\ tags[k] = t
          /\ t \in Range(type_tags)
          /\ \A j \in 1..(k - 1) : tags[j] \notin Range(type_tags)

RECURSIVE SumOfSizes(_, _)
SumOfSizes(by_type, i) ==
    IF i > Len(by_type) THEN 0
    ELSE Len(by_type[i].models) + SumOfSizes(by_type, i + 1)

\* C18: every missing model is in exactly one type bucket, the one named by
\* the first of its own tags that is a type tag, or 'other' when it has
\* none, and the bucket sizes sum to the number of missing models
C18_OneTypeBucketPerModel ==
    pc = "done" =>
        /\ Len(type_tags) = 8
        /\ \A i \in 1..Len(missing_models) :
               /\ Cardinality(BucketsOf(missing_models[i])) = 1
               /\ \A b \in BucketsOf(missing_models[i]) :
                      IsTypeOf(categories.by_type[b].type, missing_models[i].tags)
        /\ \A i, j \in 1..Len(categories.by_type) :
               categories.by_type[i].type = categories.by_type[j].type => i = j
        /\ SumOfSizes(categories.by_type, 1) = Len(missing_models)

\* models were categorized of which one has two type tags in the opposite
\* order of the fixed list, one has a type tag after another tag, and one
\* has no type tag
C18_Witness ==
    /\ pc = "done"
    /\ \E i \in 1..Len(missing_models) :
          \E a, b \in 1..Len(type_tags) :
             /\ a < b
             /\ Len(missing_models[i].tags) = 2
             /\ missing_models[i].tags[1] = type_tags[b]
             /\ missing_models[i].tags[2] = type_tags[a]
    /\ \E i \in 1..Len(missing_models) :
          /\ Len(missing_models[i].tags) > 1
          /\ missing_models[i].tags[1] \notin Range(type_tags)
          /\ missing_models[i].tags[2] \in Range(type_tags)
    /\ \E i \in 1..Len(categories.by_type) : categories.by_type[i].type = "other"
    /\ Len(categories.by_type) > 3

----------------------------------------------------------------------------
(* Properties of the pagination loop (SpecFinderFair) *)

\* the last request was answered with an empty page or failed
EndedByCatalog ==
    /\ responses # <<>>
    /\ \/ responses[Len(responses)].status = "error"
       \/ /\ responses[Len(responses)].status = "ok"
          /\ responses[Len(responses)].batch = <<>>

\* C19: the pagination loop is eventually left, after at most one request
\* per page of the catalog and one more; when it is left with fewer models
\* than the limit, the last request met an empty page or an error; and no
\* request is issued when the limit is not positive
C19_PaginationTerminates ==
    /\ <>(pc # "fetch")
    /\ [](Len(requests) <= catalog_pages + 1)
    /\ [](pc = "fetched" /\ Len(models) < limit => EndedByCatalog)
    /\ [](limit <= 0 => requests = <<>>)

\* the loop ended at the empty page after the last page of the catalog,
\* below the limit, after a page none of whose entries reached the threshold
C19_Witness ==
    /\ pc = "fetched"
    /\ models # <<>>
    /\ Len(models) < limit
    /\ catalog_pages = MaxPages
    /\ Len(requests) = catalog_pages + 1
    /\ responses[Len(responses)] = [status |-> "ok", batch |-> <<>>]
    /\ \A i \in 1..Len(responses[catalog_pages].batch) :
           Get(responses[catalog_pages].batch[i], "downloads", 0) < min_downloads

============================================================================
